---- MODULE Spec2Model ----
(***************************************************************************)
(* The onboarding bot of src/bot.py as a state machine.                    *)
(*                                                                         *)
(* Program state: the in-memory session map user_data_store and the        *)
(* members' roles.  The worksheet is remote: the bot appends rows to it    *)
(* and reads back column 1 only, never changes or deletes a row, so the    *)
(* model keeps column 1 of every row and, in full, the row that the        *)
(* handler that ran last appended.                                         *)
(* The chat side is the ephemeral messages each user holds, with what each *)
(* one shows, the modal a user has open, and the completion handlers       *)
(* suspended at `await user.add_roles(...)`.  Every other handler mutates  *)
(* state before its only await (the response), so it is one atomic step.   *)
(*                                                                         *)
(* Environment: a user acts from one client, where an open modal covers    *)
(* the messages until it is submitted; dismissing a modal and the timeout  *)
(* of a view (180 s) run no code of the bot and only take interactions     *)
(* away, so they are not modelled.                                         *)
(*                                                                         *)
(* Four specifications: Spec (one member, every failure), SpecPair (two    *)
(* members interleaved, each with data of their own), SpecData (one        *)
(* member, every choice of answers, no failure) and SpecAutocomplete       *)
(* (country_autocomplete over the static list).                            *)
(***************************************************************************)
EXTENDS Integers, Sequences, FiniteSets, TLC

\* ------------------------------------------------------------------ bounds
\* initiating commands that are answered with a message, over all users
MaxCommands == 2
\* completion handlers suspended at `await user.add_roles` at the same time
MaxPending == 1
\* characters of the text typed into the `country` option
MaxQueryLen == 2

\* ---------------------------------------------------------------- constants
\* the cap of `suggestions[:25]`
MaxChoices == 25

\* ------------------------------------------------------------------ inputs
Users == {1, 2}
\* two entries of the static list `countries`
Countries == {"Canada", "Chile"}
\* self.values of InvolvementSelect (min_values=1): non-empty selections
InterestValues == {<<"feedback", "network">>}
\* self.values of PlatformSelect (min_values=1)
PlatformValues == {<<"iOS - Swift">>}
\* AppLinkModal.app_link.value (required=False, so possibly empty)
LinkValues == {"", "https://a.app"}
\* NameModal.full_name.value (required=False, so possibly empty)
NameValues == {"", "Ann Lee"}
\* datetime.now().strftime(...): one instant stands for all
Timestamps == {"2024-01-01 00:00:00"}
\* characters the user types: letters in both cases, a space, and a letter
\* that few names contain
QueryChars == {"a", "A", "i", "N", "d", " ", "x"}
\* `current`: what is typed so far, as a sequence of characters
Queries == UNION {[1..n -> QueryChars] : n \in 0..MaxQueryLen}

\* ----------------------------------------------------------------- helpers
\* str(interaction.user.id)
Str(u) == ToString(u)

\* interaction.user.display_name
display_name(u) == "user" \o ToString(u)

\* ",".join(self.values)
RECURSIVE Join(_)
Join(values) ==
    IF Len(values) = 0 THEN ""
    ELSE IF Len(values) = 1 THEN values[1]
    ELSE values[1] \o "," \o Join(Tail(values))

\* mutant: d.setdefault(k, v), an existing entry is kept
Put_setdefault(d, k, v) ==
    [x \in (DOMAIN d) \cup {k} |-> IF x \in DOMAIN d THEN d[x] ELSE v]

\* d[k] = v for a dict d
Put(d, k, v) == [x \in (DOMAIN d) \cup {k} |-> IF x = k THEN v ELSE d[x]]

\* mutant: d.clear(), every user's entry is dropped
Pop_all(d, k) == << >>

\* d.pop(k, None)
Pop(d, k) == [x \in (DOMAIN d) \ {k} |-> d[x]]

\* the header row written when the worksheet is created
HeaderRow ==
    <<"Discord ID", "Username", "Country", "Community Interests",
      "Platforms", "App Link", "Full Name", "Onboarding Completed On">>

\* the dict stored by the initiating command
NewSession(country) ==
    [country |-> country, interests |-> "", platforms |-> "",
     app_link |-> "", full_name |-> ""]

\* ------------------------------------------------------------------- state
VARIABLES
    members,          \* the users who run the bot's commands (fixed)
    user_data_store,  \* dict: str(user id) -> session
    worksheet,        \* column 1 of the worksheet's rows, in order
    last_row,         \* the row the handler that ran last appended, or << >>
    roles,            \* users who hold the member role
    msgs,             \* per user: what each ephemeral message now shows
    modal,            \* per user: the modal open on the client, if any
    pending,          \* completion handlers suspended at await user.add_roles
    applied,          \* history: steps applied to the user's current session
    confirmed,        \* history: Continue Anyway pressed since the last record
    completed,        \* history: users with a successful write
    autocomplete      \* the text typed into `country` and the choices returned

vars == <<members, user_data_store, worksheet, last_row, roles, msgs, modal, pending,
          applied, confirmed, completed, autocomplete>>

NoModal == [kind |-> "none", msg |-> 0]

\* nothing is being typed
NoAutocomplete == [current |-> << >>, choices |-> << >>, answered |-> FALSE]

MsgIds == 1..MaxCommands

\* the view a message carries, by its content
ViewOf(content) ==
    CASE content = "interests_prompt" -> "InvolvementSelectView"
      [] content = "platforms_prompt" -> "PlatformSelectView"
      [] content = "applink_prompt"   -> "AppLinkView"
      [] content = "name_prompt"      -> "NameView"
      [] content \in {"already_prompt", "already_prompt_failed"}
                                      -> "AlreadyOnboardedView"
      [] OTHER                        -> "None"

\* everything but who uses the bot
InitState ==
    /\ user_data_store = << >>
    /\ worksheet \in {<< >>, <<HeaderRow[1]>>}  \* found empty, or created
    /\ last_row = << >>
    /\ roles = {}
    /\ msgs = [u \in Users |-> << >>]
    /\ modal = [u \in Users |-> NoModal]
    /\ pending = [t \in Users \X MsgIds |-> 0]
    /\ applied = [u \in Users |-> {}]
    /\ confirmed = [u \in Users |-> FALSE]
    /\ completed = {}

\* --------------------------------------------------------- sheets_manager
\* self.worksheet.col_values(1)
col_values_1(ws) == ws

\* mutant: the first row is dropped whatever it holds
DropHeader_always(ids) == IF Len(ids) > 0 THEN Tail(ids) ELSE ids

\* `if discord_ids and discord_ids[0] == "Discord ID": discord_ids[1:]`
DropHeader(ids) ==
    IF Len(ids) > 0 /\ ids[1] = "Discord ID" THEN Tail(ids) ELSE ids

\* GoogleSheetsManager.check_user_exists, when the remote read succeeds
check_user_exists(ws, discord_id) ==
    LET discord_ids == DropHeader(col_values_1(ws))
    IN  \E i \in 1..Len(discord_ids) : discord_ids[i] = discord_id

\* self.worksheet.append_row(row): column 1 and the last row afterwards
append_row(sheet, row) == [ws |-> Append(sheet.ws, row[1]), row |-> row]

\* mutant: the row reaches the worksheet although the call then fails
add_user_data_partial(sheet, discord_id, username, country, interests, platforms, app_link, full_name, timestamp, ok) ==
    [ws  |-> Append(sheet.ws, discord_id),
     row |-> IF ok THEN <<discord_id, username, country, interests, platforms,
                          app_link, full_name, timestamp>>
                   ELSE << >>]

\* GoogleSheetsManager.add_user_data: the worksheet afterwards; `ok` is
\* whether append_row went through (the method returns ok)
add_user_data(sheet, discord_id, username, country, interests, platforms, app_link, full_name, timestamp, ok) ==
    IF ok
    THEN append_row(sheet, <<discord_id, username, country, interests,
                             platforms, app_link, full_name, timestamp>>)
    ELSE [ws |-> sheet.ws, row |-> << >>]

\* rows of the worksheet written for a user
RowsOf(ws, u) == {i \in 1..Len(ws) : ws[i] = Str(u)}

\* --------------------------------------------------------------- chat side
\* message i of user u carries a view of this class
Live(u, i, view) ==
    /\ modal[u] = NoModal
    /\ i \in 1..Len(msgs[u])
    /\ ViewOf(msgs[u][i]) = view

\* interaction.response.edit_message(content=..., view=...)
edit_message(u, i, content) == [msgs EXCEPT ![u][i] = content]

\* interaction.response.send_message(content=..., view=..., ephemeral=True)
send_message(u, content) == [msgs EXCEPT ![u] = Append(@, content)]

RECURSIVE SumLen(_)
SumLen(S) ==
    IF S = {} THEN 0
    ELSE LET u == CHOOSE x \in S : TRUE IN Len(msgs[u]) + SumLen(S \ {u})

TotalMsgs == SumLen(Users)

HasSession(u) == Str(u) \in DOMAIN user_data_store

\* the worksheet as a handler finds it
Sheet == [ws |-> worksheet, row |-> << >>]

RECURSIVE SumPending(_)
SumPending(S) ==
    IF S = {} THEN 0
    ELSE LET t == CHOOSE x \in S : TRUE IN pending[t] + SumPending(S \ {t})

\* completion handlers now suspended at await user.add_roles
NPending == SumPending(Users \X MsgIds)

\* `if user_id in user_data_store: user_data_store[user_id][field] = value`
StoreField(store, user_id, field, value) ==
    IF user_id \in DOMAIN store
    THEN [store EXCEPT ![user_id] = [@ EXCEPT ![field] = value]]
    ELSE store

\* ------------------------------------------------------ history variables
Steps == {"start", "interests", "platforms", "applink", "name"}

\* a step has been applied to the session of u, if there is one
Applied(store, u, step) ==
    IF Str(u) \in DOMAIN store
    THEN [applied EXCEPT ![u] = @ \cup {step}]
    ELSE applied

\* ---------------------------------------------------- initiating command
\* onboarding(interaction, country); readOk: col_values(1) did not raise.
\* When it raises nothing is stored and the command is left unanswered.
onboarding(u, country, readOk) ==
    /\ TotalMsgs < MaxCommands
    /\ modal[u] = NoModal
    /\ IF ~readOk
       THEN /\ msgs' = send_message(u, "no_response")
            /\ UNCHANGED <<autocomplete, members, user_data_store, worksheet, roles, modal,
                           pending, applied, confirmed, completed>>
            /\ last_row' = << >>
       ELSE LET user_id == Str(u)
                exists  == check_user_exists(worksheet, user_id)
            IN  /\ user_data_store' = Put(user_data_store, user_id, NewSession(country))
                /\ msgs' = send_message(u, IF exists THEN "already_prompt"
                                                     ELSE "interests_prompt")
                /\ applied' = [applied EXCEPT ![u] = {"start"}]
                /\ UNCHANGED <<autocomplete, members, worksheet, roles, modal, pending, confirmed, completed>>
                /\ last_row' = << >>

\* AlreadyOnboardedView.continue_button
continue_button(u, i) ==
    /\ Live(u, i, "AlreadyOnboardedView")
    /\ confirmed' = [confirmed EXCEPT ![u] = TRUE]
    /\ IF HasSession(u)
       THEN \* country = user_data_store[user_id]["country"]
            msgs' = edit_message(u, i, "interests_prompt")
       ELSE \* KeyError: no response, the message keeps its view
            msgs' = edit_message(u, i, "already_prompt_failed")
    /\ UNCHANGED <<autocomplete, members, user_data_store, worksheet, roles, modal, pending,
                   applied, completed>>
    /\ last_row' = << >>

\* ------------------------------------------------------------ select menus
\* InvolvementSelect.callback
InvolvementSelect_callback(u, i, values) ==
    /\ Live(u, i, "InvolvementSelectView")
    /\ user_data_store' = StoreField(user_data_store, Str(u), "interests", Join(values))
    /\ msgs' = edit_message(u, i, "platforms_prompt")
    /\ applied' = Applied(user_data_store, u, "interests")
    /\ UNCHANGED <<autocomplete, members, worksheet, roles, modal, pending, confirmed, completed>>
    /\ last_row' = << >>

\* PlatformSelect.callback
PlatformSelect_callback(u, i, values) ==
    /\ Live(u, i, "PlatformSelectView")
    /\ user_data_store' = StoreField(user_data_store, Str(u), "platforms", Join(values))
    /\ msgs' = edit_message(u, i, "applink_prompt")
    /\ applied' = Applied(user_data_store, u, "platforms")
    /\ UNCHANGED <<autocomplete, members, worksheet, roles, modal, pending, confirmed, completed>>
    /\ last_row' = << >>

\* ---------------------------------------------------------------- app link
\* AppLinkButton.callback: send_modal(AppLinkModal())
AppLinkButton_callback(u, i) ==
    /\ Live(u, i, "AppLinkView")
    /\ modal' = [modal EXCEPT ![u] = [kind |-> "AppLinkModal", msg |-> i]]
    /\ UNCHANGED <<autocomplete, members, user_data_store, worksheet, roles, msgs, pending,
                   applied, confirmed, completed>>
    /\ last_row' = << >>

\* AppLinkModal.on_submit
AppLinkModal_on_submit(u, value) ==
    /\ modal[u].kind = "AppLinkModal"
    /\ user_data_store' = StoreField(user_data_store, Str(u), "app_link", value)
    /\ msgs' = edit_message(u, modal[u].msg, "name_prompt")
    /\ modal' = [modal EXCEPT ![u] = NoModal]
    /\ applied' = Applied(user_data_store, u, "applink")
    /\ UNCHANGED <<autocomplete, members, worksheet, roles, pending, confirmed, completed>>
    /\ last_row' = << >>

\* SkipAppLinkButton.callback
SkipAppLinkButton_callback(u, i) ==
    /\ Live(u, i, "AppLinkView")
    /\ user_data_store' = StoreField(user_data_store, Str(u), "app_link", "")
    /\ msgs' = edit_message(u, i, "name_prompt")
    /\ applied' = Applied(user_data_store, u, "applink")
    /\ UNCHANGED <<autocomplete, members, worksheet, roles, modal, pending, confirmed, completed>>
    /\ last_row' = << >>

\* -------------------------------------------------------------- completion
\* NameButton.callback: send_modal(NameModal())
NameButton_callback(u, i) ==
    /\ Live(u, i, "NameView")
    /\ modal' = [modal EXCEPT ![u] = [kind |-> "NameModal", msg |-> i]]
    /\ UNCHANGED <<autocomplete, members, user_data_store, worksheet, roles, msgs, pending,
                   applied, confirmed, completed>>
    /\ last_row' = << >>

\* mutant: the row is built from the session as it was before the name is stored
NameModal_save_stale(store, sheet, user_id, username, value, timestamp, ok) ==
    IF user_id \in DOMAIN store
    THEN LET user_data == store[user_id]
         IN  [store  |-> [store EXCEPT ![user_id] = [user_data EXCEPT !.full_name = value]],
              sheet  |-> add_user_data(sheet, user_id, username, user_data.country,
                                       user_data.interests, user_data.platforms,
                                       user_data.app_link, user_data.full_name,
                                       timestamp, ok),
              result |-> IF ok THEN "saved" ELSE "save_error"]
    ELSE [store |-> store, sheet |-> [ws |-> sheet.ws, row |-> << >>],
          result |-> "expired"]

\* NameModal.on_submit up to the write: the session map and the worksheet
\* afterwards, and which branch is taken
NameModal_save(store, sheet, user_id, username, value, timestamp, ok) ==
    IF user_id \in DOMAIN store
    THEN LET user_data == [store[user_id] EXCEPT !.full_name = value]
         IN  [store  |-> [store EXCEPT ![user_id] = user_data],
              sheet  |-> add_user_data(sheet, user_id, username, user_data.country,
                                       user_data.interests, user_data.platforms,
                                       user_data.app_link, user_data.full_name,
                                       timestamp, ok),
              result |-> IF ok THEN "saved" ELSE "save_error"]
    ELSE [store |-> store, sheet |-> [ws |-> sheet.ws, row |-> << >>],
          result |-> "expired"]

\* mutant: Skip leaves the name the session holds and writes that
SkipName_save_keeps_name(store, sheet, user_id, username, timestamp, ok) ==
    IF user_id \in DOMAIN store
    THEN LET user_data == store[user_id]
         IN  [store  |-> store,
              sheet  |-> add_user_data(sheet, user_id, username, user_data.country,
                                       user_data.interests, user_data.platforms,
                                       user_data.app_link, user_data.full_name,
                                       timestamp, ok),
              result |-> IF ok THEN "saved" ELSE "save_error"]
    ELSE [store |-> store, sheet |-> [ws |-> sheet.ws, row |-> << >>],
          result |-> "expired"]

\* mutant: the value add_user_data returns is not looked at
SkipName_save_ignores_result(store, sheet, user_id, username, timestamp, ok) ==
    IF user_id \in DOMAIN store
    THEN LET user_data == [store[user_id] EXCEPT !.full_name = ""]
         IN  [store  |-> [store EXCEPT ![user_id] = user_data],
              sheet  |-> add_user_data(sheet, user_id, username, user_data.country,
                                       user_data.interests, user_data.platforms,
                                       user_data.app_link, "", timestamp, ok),
              result |-> "saved"]
    ELSE [store |-> store, sheet |-> [ws |-> sheet.ws, row |-> << >>],
          result |-> "expired"]

\* mutant: no session check, a missing session is read with defaults
SkipName_save_unchecked(store, sheet, user_id, username, timestamp, ok) ==
    LET user_data == IF user_id \in DOMAIN store THEN store[user_id]
                                                 ELSE NewSession("")
    IN  [store  |-> store,
         sheet  |-> add_user_data(sheet, user_id, username, user_data.country,
                                  user_data.interests, user_data.platforms,
                                  user_data.app_link, "", timestamp, ok),
         result |-> IF user_id \notin DOMAIN store THEN "expired"
                    ELSE IF ok THEN "saved" ELSE "save_error"]

\* SkipNameButton.callback up to the write
SkipName_save(store, sheet, user_id, username, timestamp, ok) ==
    IF user_id \in DOMAIN store
    THEN LET user_data == [store[user_id] EXCEPT !.full_name = ""]
         IN  [store  |-> [store EXCEPT ![user_id] = user_data],
              sheet  |-> add_user_data(sheet, user_id, username, user_data.country,
                                       user_data.interests, user_data.platforms,
                                       user_data.app_link, "", timestamp, ok),
              result |-> IF ok THEN "saved" ELSE "save_error"]
    ELSE [store |-> store, sheet |-> [ws |-> sheet.ws, row |-> << >>],
          result |-> "expired"]

\* what guild.get_role(int(MEMBER_ROLE_ID)) gives: the role, None (also when
\* MEMBER_ROLE_ID is unset), or an exception
RoleOutcomes == {"found", "notfound", "error"}

\* mutant: a role that is not found is reported as a failure
update_user_roles_strict(role, held) ==
    IF role \in {"error", "notfound"} THEN "False"
    ELSE IF ~held THEN "add"
    ELSE "True"

\* update_user_roles up to its await: "add" when user.add_roles is awaited,
\* otherwise the value returned without suspending
update_user_roles(role, held) ==
    IF role = "error" THEN "False"
    ELSE IF role = "found" /\ ~held THEN "add"
    ELSE "True"

\* mutant: the session is popped only when the role update succeeded
CleanUp_if_updated(store, user_id, role_updated) ==
    IF role_updated THEN Pop(store, user_id) ELSE store

\* user_data_store.pop(user_id, None) after the role update
CleanUp(store, user_id, role_updated) == Pop(store, user_id)

\* mutant: a failed role update is reported as a failed onboarding
CompletionMessage_strict(role_updated) ==
    IF role_updated THEN "complete_role_updated" ELSE "save_error"

\* content of the completion message
CompletionMessage(role_updated) ==
    IF role_updated THEN "complete_role_updated" ELSE "complete"

\* content of the message shown when add_user_data returned False
SaveErrorMessage == "save_error"

\* the `if success: ... else: ...` / `else:` tail, the same code in
\* NameModal.on_submit and SkipNameButton.callback
AfterSave(u, i, r, role) ==
    LET user_id == Str(u)
        step    == update_user_roles(role, u \in roles)
    IN
    /\ worksheet' = r.sheet.ws
    /\ last_row' = r.sheet.row
    /\ completed' = IF r.result = "saved" THEN completed \cup {u} ELSE completed
    /\ confirmed' = IF r.result = "saved" THEN [confirmed EXCEPT ![u] = FALSE]
                                          ELSE confirmed
    /\ roles' = roles
    /\ members' = members
    /\ autocomplete' = autocomplete
    /\ CASE r.result = "saved" /\ step = "add" ->
              /\ NPending < MaxPending
              /\ pending' = [pending EXCEPT ![<<u, i>>] = @ + 1]
              /\ user_data_store' = r.store
              /\ msgs' = msgs
              /\ applied' = Applied(user_data_store, u, "name")
         [] r.result = "saved" /\ step # "add" ->
              /\ pending' = pending
              /\ user_data_store' = CleanUp(r.store, user_id, step = "True")
              /\ msgs' = edit_message(u, i, CompletionMessage(step = "True"))
              /\ applied' = [applied EXCEPT ![u] = {}]
         [] r.result = "save_error" ->
              /\ pending' = pending
              /\ user_data_store' = r.store
              /\ msgs' = edit_message(u, i, SaveErrorMessage)
              /\ applied' = Applied(user_data_store, u, "name")
         [] r.result = "expired" ->
              /\ pending' = pending
              /\ user_data_store' = r.store
              /\ msgs' = edit_message(u, i, "expired")
              /\ applied' = applied

\* NameModal.on_submit
NameModal_on_submit(u, value, ok, role, timestamp) ==
    /\ modal[u].kind = "NameModal"
    /\ modal' = [modal EXCEPT ![u] = NoModal]
    /\ AfterSave(u, modal[u].msg,
                 NameModal_save(user_data_store, Sheet, Str(u),
                                display_name(u), value, timestamp, ok),
                 role)

\* SkipNameButton.callback
SkipNameButton_callback(u, i, ok, role, timestamp) ==
    /\ Live(u, i, "NameView")
    /\ modal' = modal
    /\ AfterSave(u, i,
                 SkipName_save(user_data_store, Sheet, Str(u),
                               display_name(u), timestamp, ok),
                 role)

\* a suspended completion handler resumes: user.add_roles returned (ok) or
\* raised, update_user_roles returns, the session is popped and the
\* completion message replaces the view
add_roles_done(u, i, ok) ==
    /\ pending[<<u, i>>] > 0
    /\ roles' = IF ok THEN roles \cup {u} ELSE roles
    /\ user_data_store' = CleanUp(user_data_store, Str(u), ok)
    /\ msgs' = edit_message(u, i, CompletionMessage(ok))
    /\ applied' = [applied EXCEPT ![u] = {}]
    /\ pending' = [pending EXCEPT ![<<u, i>>] = @ - 1]
    /\ UNCHANGED <<autocomplete, members, worksheet, modal, confirmed, completed>>
    /\ last_row' = << >>

\* ------------------------------------------------------------ specification
\* one member goes through the flow, any number of times up to the bounds
Init == members = {1} /\ autocomplete = NoAutocomplete /\ InitState

Next ==
    \/ \E u \in members, c \in Countries, readOk \in BOOLEAN : onboarding(u, c, readOk)
    \/ \E u \in members, i \in MsgIds : continue_button(u, i)
    \/ \E u \in members, i \in MsgIds, v \in InterestValues : InvolvementSelect_callback(u, i, v)
    \/ \E u \in members, i \in MsgIds, v \in PlatformValues : PlatformSelect_callback(u, i, v)
    \/ \E u \in members, i \in MsgIds : AppLinkButton_callback(u, i)
    \/ \E u \in members, v \in LinkValues : AppLinkModal_on_submit(u, v)
    \/ \E u \in members, i \in MsgIds : SkipAppLinkButton_callback(u, i)
    \/ \E u \in members, i \in MsgIds : NameButton_callback(u, i)
    \/ \E u \in members, v \in NameValues, ok \in BOOLEAN, role \in RoleOutcomes,
          ts \in Timestamps : NameModal_on_submit(u, v, ok, role, ts)
    \/ \E u \in members, i \in MsgIds, ok \in BOOLEAN, role \in RoleOutcomes,
          ts \in Timestamps : SkipNameButton_callback(u, i, ok, role, ts)
    \/ \E u \in members, i \in MsgIds, ok \in BOOLEAN : add_roles_done(u, i, ok)

Spec == Init /\ [][Next]_vars

\* ------------------------------------------------- two members side by side
\* both members use the bot; each has a country and interests of their own,
\* the worksheet is the one the bot created, it can be read, and the member
\* role exists in the guild
InitPair ==
    /\ members = {1, 2}
    /\ autocomplete = NoAutocomplete
    /\ InitState
    /\ worksheet = <<HeaderRow[1]>>

\* the `country` argument a member gives
PairCountry(u) == IF u = 1 THEN "Canada" ELSE "Chile"

\* the interests a member selects
PairInterests(u) == IF u = 1 THEN <<"feedback", "network">> ELSE <<"promote">>

NextPair ==
    \/ \E u \in members : onboarding(u, PairCountry(u), TRUE)
    \/ \E u \in members, i \in MsgIds : continue_button(u, i)
    \/ \E u \in members, i \in MsgIds : InvolvementSelect_callback(u, i, PairInterests(u))
    \/ \E u \in members, i \in MsgIds, v \in PlatformValues : PlatformSelect_callback(u, i, v)
    \/ \E u \in members, i \in MsgIds : AppLinkButton_callback(u, i)
    \/ \E u \in members : AppLinkModal_on_submit(u, "https://a.app")
    \/ \E u \in members, i \in MsgIds : SkipAppLinkButton_callback(u, i)
    \/ \E u \in members, i \in MsgIds : NameButton_callback(u, i)
    \/ \E u \in members, ok \in BOOLEAN, ts \in Timestamps :
          NameModal_on_submit(u, "Ann Lee", ok, "found", ts)
    \/ \E u \in members, i \in MsgIds, ok \in BOOLEAN, ts \in Timestamps :
          SkipNameButton_callback(u, i, ok, "found", ts)
    \/ \E u \in members, i \in MsgIds, ok \in BOOLEAN : add_roles_done(u, i, ok)

SpecPair == InitPair /\ [][NextPair]_vars

\* ------------------------------------------------------ the answers written
\* one member goes through the flow with every choice of answers, changing
\* them and starting again; the worksheet can be read and written, and no
\* member role is configured, so no completion is suspended
DataInterestValues == {<<"feedback", "network">>, <<"promote">>}

InitData == members = {1} /\ autocomplete = NoAutocomplete /\ InitState

NextData ==
    \/ \E u \in members, c \in Countries : onboarding(u, c, TRUE)
    \/ \E u \in members, i \in MsgIds : continue_button(u, i)
    \/ \E u \in members, i \in MsgIds, v \in DataInterestValues :
          InvolvementSelect_callback(u, i, v)
    \/ \E u \in members, i \in MsgIds, v \in PlatformValues : PlatformSelect_callback(u, i, v)
    \/ \E u \in members, i \in MsgIds : AppLinkButton_callback(u, i)
    \/ \E u \in members, v \in LinkValues : AppLinkModal_on_submit(u, v)
    \/ \E u \in members, i \in MsgIds : SkipAppLinkButton_callback(u, i)
    \/ \E u \in members, i \in MsgIds : NameButton_callback(u, i)
    \/ \E u \in members, v \in NameValues, ts \in Timestamps :
          NameModal_on_submit(u, v, TRUE, "notfound", ts)
    \/ \E u \in members, i \in MsgIds, ts \in Timestamps :
          SkipNameButton_callback(u, i, TRUE, "notfound", ts)

SpecData == InitData /\ [][NextData]_vars

\* ------------------------------------------------------------ autocomplete
\* the static list `countries`, each name as its sequence of characters
countries ==
    <<
       <<"A", "f", "g", "h", "a", "n", "i", "s", "t", "a", "n">>,
       <<"A", "l", "b", "a", "n", "i", "a">>,
       <<"A", "l", "g", "e", "r", "i", "a">>,
       <<"A", "n", "d", "o", "r", "r", "a">>,
       <<"A", "n", "g", "o", "l", "a">>,
       <<"A", "n", "t", "i", "g", "u", "a", " ", "a", "n", "d", " ", "B", "a", "r", "b", "u", "d", "a">>,
       <<"A", "r", "g", "e", "n", "t", "i", "n", "a">>,
       <<"A", "r", "m", "e", "n", "i", "a">>,
       <<"A", "u", "s", "t", "r", "a", "l", "i", "a">>,
       <<"A", "u", "s", "t", "r", "i", "a">>,
       <<"A", "z", "e", "r", "b", "a", "i", "j", "a", "n">>,
       <<"B", "a", "h", "a", "m", "a", "s">>,
       <<"B", "a", "h", "r", "a", "i", "n">>,
       <<"B", "a", "n", "g", "l", "a", "d", "e", "s", "h">>,
       <<"B", "a", "r", "b", "a", "d", "o", "s">>,
       <<"B", "e", "l", "a", "r", "u", "s">>,
       <<"B", "e", "l", "g", "i", "u", "m">>,
       <<"B", "e", "l", "i", "z", "e">>,
       <<"B", "e", "n", "i", "n">>,
       <<"B", "h", "u", "t", "a", "n">>,
       <<"B", "o", "l", "i", "v", "i", "a">>,
       <<"B", "o", "s", "n", "i", "a", " ", "a", "n", "d", " ", "H", "e", "r", "z", "e", "g", "o", "v", "i", "n", "a">>,
       <<"B", "o", "t", "s", "w", "a", "n", "a">>,
       <<"B", "r", "a", "z", "i", "l">>,
       <<"B", "r", "u", "n", "e", "i">>,
       <<"B", "u", "l", "g", "a", "r", "i", "a">>,
       <<"B", "u", "r", "k", "i", "n", "a", " ", "F", "a", "s", "o">>,
       <<"B", "u", "r", "u", "n", "d", "i">>,
       <<"C", "a", "b", "o", " ", "V", "e", "r", "d", "e">>,
       <<"C", "a", "m", "b", "o", "d", "i", "a">>,
       <<"C", "a", "m", "e", "r", "o", "o", "n">>,
       <<"C", "a", "n", "a", "d", "a">>,
       <<"C", "e", "n", "t", "r", "a", "l", " ", "A", "f", "r", "i", "c", "a", "n", " ", "R", "e", "p", "u", "b", "l", "i", "c">>,
       <<"C", "h", "a", "d">>,
       <<"C", "h", "i", "l", "e">>,
       <<"C", "h", "i", "n", "a">>,
       <<"C", "o", "l", "o", "m", "b", "i", "a">>,
       <<"C", "o", "m", "o", "r", "o", "s">>,
       <<"C", "o", "n", "g", "o">>,
       <<"C", "o", "s", "t", "a", " ", "R", "i", "c", "a">>,
       <<"C", "r", "o", "a", "t", "i", "a">>,
       <<"C", "u", "b", "a">>,
       <<"C", "y", "p", "r", "u", "s">>,
       <<"C", "z", "e", "c", "h", " ", "R", "e", "p", "u", "b", "l", "i", "c">>,
       <<"D", "e", "n", "m", "a", "r", "k">>,
       <<"D", "j", "i", "b", "o", "u", "t", "i">>,
       <<"D", "o", "m", "i", "n", "i", "c", "a">>,
       <<"D", "o", "m", "i", "n", "i", "c", "a", "n", " ", "R", "e", "p", "u", "b", "l", "i", "c">>,
       <<"E", "c", "u", "a", "d", "o", "r">>,
       <<"E", "g", "y", "p", "t">>,
       <<"E", "l", " ", "S", "a", "l", "v", "a", "d", "o", "r">>,
       <<"E", "q", "u", "a", "t", "o", "r", "i", "a", "l", " ", "G", "u", "i", "n", "e", "a">>,
       <<"E", "r", "i", "t", "r", "e", "a">>,
       <<"E", "s", "t", "o", "n", "i", "a">>,
       <<"E", "s", "w", "a", "t", "i", "n", "i">>,
       <<"E", "t", "h", "i", "o", "p", "i", "a">>,
       <<"F", "i", "j", "i">>,
       <<"F", "i", "n", "l", "a", "n", "d">>,
       <<"F", "r", "a", "n", "c", "e">>,
       <<"G", "a", "b", "o", "n">>,
       <<"G", "a", "m", "b", "i", "a">>,
       <<"G", "e", "o", "r", "g", "i", "a">>,
       <<"G", "e", "r", "m", "a", "n", "y">>,
       <<"G", "h", "a", "n", "a">>,
       <<"G", "r", "e", "e", "c", "e">>,
       <<"G", "r", "e", "n", "a", "d", "a">>,
       <<"G", "u", "a", "t", "e", "m", "a", "l", "a">>,
       <<"G", "u", "i", "n", "e", "a">>,
       <<"G", "u", "i", "n", "e", "a", "-", "B", "i", "s", "s", "a", "u">>,
       <<"G", "u", "y", "a", "n", "a">>,
       <<"H", "a", "i", "t", "i">>,
       <<"H", "o", "n", "d", "u", "r", "a", "s">>,
       <<"H", "u", "n", "g", "a", "r", "y">>,
       <<"I", "c", "e", "l", "a", "n", "d">>,
       <<"I", "n", "d", "i", "a">>,
       <<"I", "n", "d", "o", "n", "e", "s", "i", "a">>,
       <<"I", "r", "a", "n">>,
       <<"I", "r", "a", "q">>,
       <<"I", "r", "e", "l", "a", "n", "d">>,
       <<"I", "s", "r", "a", "e", "l">>,
       <<"I", "t", "a", "l", "y">>,
       <<"J", "a", "m", "a", "i", "c", "a">>,
       <<"J", "a", "p", "a", "n">>,
       <<"J", "o", "r", "d", "a", "n">>,
       <<"K", "a", "z", "a", "k", "h", "s", "t", "a", "n">>,
       <<"K", "e", "n", "y", "a">>,
       <<"K", "i", "r", "i", "b", "a", "t", "i">>,
       <<"K", "o", "r", "e", "a", ",", " ", "N", "o", "r", "t", "h">>,
       <<"K", "o", "r", "e", "a", ",", " ", "S", "o", "u", "t", "h">>,
       <<"K", "u", "w", "a", "i", "t">>,
       <<"K", "y", "r", "g", "y", "z", "s", "t", "a", "n">>,
       <<"L", "a", "o", "s">>,
       <<"L", "a", "t", "v", "i", "a">>,
       <<"L", "e", "b", "a", "n", "o", "n">>,
       <<"L", "e", "s", "o", "t", "h", "o">>,
       <<"L", "i", "b", "e", "r", "i", "a">>,
       <<"L", "i", "b", "y", "a">>,
       <<"L", "i", "e", "c", "h", "t", "e", "n", "s", "t", "e", "i", "n">>,
       <<"L", "i", "t", "h", "u", "a", "n", "i", "a">>,
       <<"L", "u", "x", "e", "m", "b", "o", "u", "r", "g">>,
       <<"M", "a", "d", "a", "g", "a", "s", "c", "a", "r">>,
       <<"M", "a", "l", "a", "w", "i">>,
       <<"M", "a", "l", "a", "y", "s", "i", "a">>,
       <<"M", "a", "l", "d", "i", "v", "e", "s">>,
       <<"M", "a", "l", "i">>,
       <<"M", "a", "l", "t", "a">>,
       <<"M", "a", "r", "s", "h", "a", "l", "l", " ", "I", "s", "l", "a", "n", "d", "s">>,
       <<"M", "a", "u", "r", "i", "t", "a", "n", "i", "a">>,
       <<"M", "a", "u", "r", "i", "t", "i", "u", "s">>,
       <<"M", "e", "x", "i", "c", "o">>,
       <<"M", "i", "c", "r", "o", "n", "e", "s", "i", "a">>,
       <<"M", "o", "l", "d", "o", "v", "a">>,
       <<"M", "o", "n", "a", "c", "o">>,
       <<"M", "o", "n", "g", "o", "l", "i", "a">>,
       <<"M", "o", "n", "t", "e", "n", "e", "g", "r", "o">>,
       <<"M", "o", "r", "o", "c", "c", "o">>,
       <<"M", "o", "z", "a", "m", "b", "i", "q", "u", "e">>,
       <<"M", "y", "a", "n", "m", "a", "r">>,
       <<"N", "a", "m", "i", "b", "i", "a">>,
       <<"N", "a", "u", "r", "u">>,
       <<"N", "e", "p", "a", "l">>,
       <<"N", "e", "t", "h", "e", "r", "l", "a", "n", "d", "s">>,
       <<"N", "e", "w", " ", "Z", "e", "a", "l", "a", "n", "d">>,
       <<"N", "i", "c", "a", "r", "a", "g", "u", "a">>,
       <<"N", "i", "g", "e", "r">>,
       <<"N", "i", "g", "e", "r", "i", "a">>,
       <<"N", "o", "r", "t", "h", " ", "M", "a", "c", "e", "d", "o", "n", "i", "a">>,
       <<"N", "o", "r", "w", "a", "y">>,
       <<"O", "m", "a", "n">>,
       <<"P", "a", "k", "i", "s", "t", "a", "n">>,
       <<"P", "a", "l", "a", "u">>,
       <<"P", "a", "l", "e", "s", "t", "i", "n", "e">>,
       <<"P", "a", "n", "a", "m", "a">>,
       <<"P", "a", "p", "u", "a", " ", "N", "e", "w", " ", "G", "u", "i", "n", "e", "a">>,
       <<"P", "a", "r", "a", "g", "u", "a", "y">>,
       <<"P", "e", "r", "u">>,
       <<"P", "h", "i", "l", "i", "p", "p", "i", "n", "e", "s">>,
       <<"P", "o", "l", "a", "n", "d">>,
       <<"P", "o", "r", "t", "u", "g", "a", "l">>,
       <<"Q", "a", "t", "a", "r">>,
       <<"R", "o", "m", "a", "n", "i", "a">>,
       <<"R", "u", "s", "s", "i", "a">>,
       <<"R", "w", "a", "n", "d", "a">>,
       <<"S", "a", "i", "n", "t", " ", "K", "i", "t", "t", "s", " ", "a", "n", "d", " ", "N", "e", "v", "i", "s">>,
       <<"S", "a", "i", "n", "t", " ", "L", "u", "c", "i", "a">>,
       <<"S", "a", "i", "n", "t", " ", "V", "i", "n", "c", "e", "n", "t", " ", "a", "n", "d", " ", "t", "h", "e", " ", "G", "r", "e", "n", "a", "d", "i", "n", "e", "s">>,
       <<"S", "a", "m", "o", "a">>,
       <<"S", "a", "n", " ", "M", "a", "r", "i", "n", "o">>,
       <<"S", "a", "o", " ", "T", "o", "m", "e", " ", "a", "n", "d", " ", "P", "r", "i", "n", "c", "i", "p", "e">>,
       <<"S", "a", "u", "d", "i", " ", "A", "r", "a", "b", "i", "a">>,
       <<"S", "e", "n", "e", "g", "a", "l">>,
       <<"S", "e", "r", "b", "i", "a">>,
       <<"S", "e", "y", "c", "h", "e", "l", "l", "e", "s">>,
       <<"S", "i", "e", "r", "r", "a", " ", "L", "e", "o", "n", "e">>,
       <<"S", "i", "n", "g", "a", "p", "o", "r", "e">>,
       <<"S", "l", "o", "v", "a", "k", "i", "a">>,
       <<"S", "l", "o", "v", "e", "n", "i", "a">>,
       <<"S", "o", "l", "o", "m", "o", "n", " ", "I", "s", "l", "a", "n", "d", "s">>,
       <<"S", "o", "m", "a", "l", "i", "a">>,
       <<"S", "o", "u", "t", "h", " ", "A", "f", "r", "i", "c", "a">>,
       <<"S", "o", "u", "t", "h", " ", "S", "u", "d", "a", "n">>,
       <<"S", "p", "a", "i", "n">>,
       <<"S", "r", "i", " ", "L", "a", "n", "k", "a">>,
       <<"S", "u", "d", "a", "n">>,
       <<"S", "u", "r", "i", "n", "a", "m", "e">>,
       <<"S", "w", "e", "d", "e", "n">>,
       <<"S", "w", "i", "t", "z", "e", "r", "l", "a", "n", "d">>,
       <<"S", "y", "r", "i", "a">>,
       <<"T", "a", "i", "w", "a", "n">>,
       <<"T", "a", "j", "i", "k", "i", "s", "t", "a", "n">>,
       <<"T", "a", "n", "z", "a", "n", "i", "a">>,
       <<"T", "h", "a", "i", "l", "a", "n", "d">>,
       <<"T", "i", "m", "o", "r", "-", "L", "e", "s", "t", "e">>,
       <<"T", "o", "g", "o">>,
       <<"T", "o", "n", "g", "a">>,
       <<"T", "r", "i", "n", "i", "d", "a", "d", " ", "a", "n", "d", " ", "T", "o", "b", "a", "g", "o">>,
       <<"T", "u", "n", "i", "s", "i", "a">>,
       <<"T", "u", "r", "k", "e", "y">>,
       <<"T", "u", "r", "k", "m", "e", "n", "i", "s", "t", "a", "n">>,
       <<"T", "u", "v", "a", "l", "u">>,
       <<"U", "g", "a", "n", "d", "a">>,
       <<"U", "k", "r", "a", "i", "n", "e">>,
       <<"U", "n", "i", "t", "e", "d", " ", "A", "r", "a", "b", " ", "E", "m", "i", "r", "a", "t", "e", "s">>,
       <<"U", "n", "i", "t", "e", "d", " ", "K", "i", "n", "g", "d", "o", "m">>,
       <<"U", "n", "i", "t", "e", "d", " ", "S", "t", "a", "t", "e", "s">>,
       <<"U", "r", "u", "g", "u", "a", "y">>,
       <<"U", "z", "b", "e", "k", "i", "s", "t", "a", "n">>,
       <<"V", "a", "n", "u", "a", "t", "u">>,
       <<"V", "a", "t", "i", "c", "a", "n", " ", "C", "i", "t", "y">>,
       <<"V", "e", "n", "e", "z", "u", "e", "l", "a">>,
       <<"V", "i", "e", "t", "n", "a", "m">>,
       <<"Y", "e", "m", "e", "n">>,
       <<"Z", "a", "m", "b", "i", "a">>,
       <<"Z", "i", "m", "b", "a", "b", "w", "e">>
    >>

ascii_uppercase ==
    <<"A", "B", "C", "D", "E", "F", "G", "H", "I", "J", "K", "L", "M",
      "N", "O", "P", "Q", "R", "S", "T", "U", "V", "W", "X", "Y", "Z">>

ascii_lowercase ==
    <<"a", "b", "c", "d", "e", "f", "g", "h", "i", "j", "k", "l", "m",
      "n", "o", "p", "q", "r", "s", "t", "u", "v", "w", "x", "y", "z">>

\* str.lower() on one character
lower_char(c) ==
    IF \E k \in DOMAIN ascii_uppercase : ascii_uppercase[k] = c
    THEN ascii_lowercase[CHOOSE k \in DOMAIN ascii_uppercase : ascii_uppercase[k] = c]
    ELSE c

\* str.lower()
lower(s) == [j \in 1..Len(s) |-> lower_char(s[j])]

\* `sub in s` for strings
contains(sub, s) ==
    \E k \in 0..(Len(s) - Len(sub)) : \A j \in 1..Len(sub) : s[k + j] = sub[j]

\* seq[:n]
Slice(seq, n) == SubSeq(seq, 1, IF Len(seq) < n THEN Len(seq) ELSE n)

\* mutant: the query must start the name (str.startswith)
country_autocomplete_prefix(current) ==
    LET current_lower == lower(current)
        starts(country) == /\ Len(current_lower) <= Len(country)
                           /\ SubSeq(lower(country), 1, Len(current_lower)) = current_lower
    IN  Slice(SelectSeq(countries, starts), MaxChoices)

\* country_autocomplete: the names of the choices returned
country_autocomplete(current) ==
    LET current_lower == lower(current)
        keep(country) == contains(current_lower, lower(country))
        suggestions   == SelectSeq(countries, keep)
    IN  Slice(suggestions, MaxChoices)

\* the autocomplete interaction for what is typed
country_autocomplete_handler ==
    /\ ~autocomplete.answered
    /\ autocomplete' = [current  |-> autocomplete.current,
                        choices  |-> country_autocomplete(autocomplete.current),
                        answered |-> TRUE]
    /\ UNCHANGED <<members, user_data_store, worksheet, last_row, roles, msgs,
                   modal, pending, applied, confirmed, completed>>

\* a user has typed some text into the `country` option
InitAutocomplete ==
    /\ members = {1}
    /\ autocomplete \in [current : Queries, choices : {<< >>}, answered : {FALSE}]
    /\ InitState

NextAutocomplete == country_autocomplete_handler

SpecAutocomplete == InitAutocomplete /\ [][NextAutocomplete]_vars

\* ================================================================== claims
\* the handlers as steps of one user
\* submitName / skipName of u, answered on message i; ok: the write went through
SubmitNameOn(u, i, ok) ==
    /\ modal[u].msg = i
    /\ \E v \in NameValues, role \in RoleOutcomes, ts \in Timestamps :
          NameModal_on_submit(u, v, ok, role, ts)

SkipNameOn(u, i, ok) ==
    \E role \in RoleOutcomes, ts \in Timestamps :
        SkipNameButton_callback(u, i, ok, role, ts)

CompletionOn(u, i, ok) == SubmitNameOn(u, i, ok) \/ SkipNameOn(u, i, ok)

CompletionBy(u) == \E i \in MsgIds, ok \in BOOLEAN : CompletionOn(u, i, ok)

Session(u) == user_data_store[Str(u)]

\* message i of u is edited, or a completion is suspended on it or resumes:
\* every handler that answers on a message does one of these, so a formula
\* about such handlers need look no further at the other steps
AnsweredOn(u, i) ==
    /\ i <= Len(msgs[u])
    /\ \/ msgs'[u][i] # msgs[u][i]
       \/ pending'[<<u, i>>] # pending[<<u, i>>]

\* ----------------------------------------------------------------------- C1
\* C1: every transition handler (submitInterests, submitPlatforms,
\* submitAppLink, skipAppLink, submitName, skipName, Continue Anyway) run by
\* a user who has no session answers "session expired" on the message it
\* was invoked from and does not show the next step.
C1_TransitionOn(u, i) ==
    \/ \E v \in InterestValues : InvolvementSelect_callback(u, i, v)
    \/ \E v \in PlatformValues : PlatformSelect_callback(u, i, v)
    \/ \E v \in LinkValues : AppLinkModal_on_submit(u, v) /\ modal[u].msg = i
    \/ SkipAppLinkButton_callback(u, i)
    \/ \E ok \in BOOLEAN : CompletionOn(u, i, ok)
    \/ continue_button(u, i)

C1_NoSessionMeansExpired ==
    [][\A u \in Users, i \in MsgIds :
          (~HasSession(u) /\ C1_TransitionOn(u, i)) => msgs'[u][i] = "expired"]_vars

\* ----------------------------------------------------------------------- C2
\* C2: when the write fails in submitName or skipName, the user is shown the
\* save-error message, the worksheet is unchanged, no role is granted and
\* none is being granted, and the session is still there with the country,
\* interests, platforms and app link it had.
C2_WriteFails(u, i) == HasSession(u) /\ CompletionOn(u, i, FALSE)

C2_FailedWriteKeepsSession ==
    [][\A u \in Users, i \in MsgIds :
          C2_WriteFails(u, i) =>
             /\ msgs'[u][i] = "save_error"
             /\ worksheet' = worksheet
             /\ last_row' = << >>
             /\ roles' = roles
             /\ pending' = pending
             /\ Str(u) \in DOMAIN user_data_store'
             /\ \A f \in {"country", "interests", "platforms", "app_link"} :
                   user_data_store'[Str(u)][f] = Session(u)[f]]_vars

\* a failed write has been reported and the session with its answers is there
C2_Witness ==
    \E u \in Users, i \in MsgIds :
        /\ i <= Len(msgs[u]) /\ msgs[u][i] = "save_error"
        /\ HasSession(u)
        /\ Session(u).interests # "" /\ Session(u).platforms # ""
        /\ worksheet \in {<< >>, <<HeaderRow[1]>>}
        /\ roles = {}

\* ----------------------------------------------------------------------- C3
\* C3: after a completion attempt failed with the save-error message, the
\* same user can repeat the final submission without a new initiating
\* command (a name step is still offered to them), the failed attempt left
\* no row, and a write that succeeds adds exactly one row for the user.
C3_CanComplete(u) ==
    \/ modal[u].kind = "NameModal"
    \/ modal[u] = NoModal /\ \E i \in MsgIds : Live(u, i, "NameView")

C3_RetryWithoutRestart ==
    [][\A u \in Users :
          /\ (\E i \in MsgIds : C2_WriteFails(u, i)) =>
                C3_CanComplete(u)' /\ worksheet' = worksheet
          /\ (HasSession(u) /\ \E i \in MsgIds : CompletionOn(u, i, TRUE)) =>
                Cardinality(RowsOf(worksheet', u)) = Cardinality(RowsOf(worksheet, u)) + 1
      ]_vars

\* ----------------------------------------------------------------------- C4
\* C4: for a user who already has a row in the worksheet, an initiating
\* command that is answered shows the already-onboarded prompt, not the
\* interests step; and a further row for that user is appended only if the
\* user has pressed Continue Anyway since their previous row was written.
C4_RepeatNeedsContinue ==
    [][\A u \in Users :
          /\ (RowsOf(worksheet, u) # {} /\ \E c \in Countries : onboarding(u, c, TRUE)) =>
                msgs'[u][Len(msgs'[u])] = "already_prompt"
          /\ (RowsOf(worksheet, u) # {} /\ RowsOf(worksheet', u) # RowsOf(worksheet, u)) =>
                confirmed[u]
      ]_vars

\* ----------------------------------------------------------------------- C5
\* C5: the steps applied to a session come in the order start, interests,
\* platforms, app link, name: a handler changes or completes a session only
\* if the step before its own has been applied to that session and no later
\* step has.
C5_Before(step) ==
    CASE step = "interests" -> "start"
      [] step = "platforms" -> "interests"
      [] step = "applink"   -> "platforms"
      [] step = "name"      -> "applink"

C5_After(step) ==
    CASE step = "interests" -> {"platforms", "applink", "name"}
      [] step = "platforms" -> {"applink", "name"}
      [] step = "applink"   -> {"name"}
      [] step = "name"      -> {}

C5_Handler(u, step) ==
    CASE step = "interests" ->
            \E i \in MsgIds, v \in InterestValues : InvolvementSelect_callback(u, i, v)
      [] step = "platforms" ->
            \E i \in MsgIds, v \in PlatformValues : PlatformSelect_callback(u, i, v)
      [] step = "applink" ->
            \/ \E v \in LinkValues : AppLinkModal_on_submit(u, v)
            \/ \E i \in MsgIds : SkipAppLinkButton_callback(u, i)
      [] step = "name" -> CompletionBy(u)

C5_StepsInOrder ==
    [][\A u \in Users, step \in Steps \ {"start"} :
          (HasSession(u) /\ C5_Handler(u, step)) =>
             /\ C5_Before(step) \in applied[u]
             /\ applied[u] \cap C5_After(step) = {}]_vars

\* ----------------------------------------------------------------------- C6
\* C6: when a completion handler (submitName or skipName) finishes after a
\* write that went through, the user's session is gone from the session map,
\* whether the role was granted, already held, not found, or the grant failed.
C6_Finishes(u) ==
    \/ \E i \in MsgIds, ok \in BOOLEAN : add_roles_done(u, i, ok)
    \/ /\ HasSession(u)
       /\ \E i \in MsgIds : CompletionOn(u, i, TRUE)
       /\ pending' = pending

C6_SessionGoneAfterCompletion ==
    [][\A u \in Users : C6_Finishes(u) => Str(u) \notin DOMAIN user_data_store']_vars

\* a completion whose role grant failed has finished and left no session
C6_Witness ==
    \E u \in Users, i \in MsgIds :
        /\ i <= Len(msgs[u]) /\ msgs[u][i] = "complete"
        /\ u \notin roles
        /\ ~HasSession(u)

\* ----------------------------------------------------------------------- C7
\* C7: the worksheet changes only in submitName or skipName of a user who has
\* a session at that moment: the initiating command, submitInterests,
\* submitPlatforms, submitAppLink, skipAppLink, Continue Anyway, and any
\* handler of a user without a session leave it as it is.
C7_OnlyCompletionWrites ==
    [][(worksheet' # worksheet \/ last_row' # << >>) =>
          \E u \in Users : HasSession(u) /\ CompletionBy(u)]_vars

\* a completion has written a row
C7_Witness ==
    \E u \in Users : RowsOf(worksheet, u) # {} /\ last_row # << >> /\ last_row[1] = Str(u)

\* ----------------------------------------------------------------------- C8
\* C8: starting from a worksheet without data rows, check_user_exists(u) is
\* false in every state before u's first write that went through and true
\* in every state from then on.
C8_ExistsIffCompleted ==
    \A u \in Users : check_user_exists(worksheet, Str(u)) <=> (u \in completed)

\* a user has completed and is found
C8_Witness ==
    \E u \in Users : u \in completed /\ check_user_exists(worksheet, Str(u))

\* ----------------------------------------------------------------------- C9
\* C9: the session map holds at most one session per user, and an initiating
\* command that is answered, on the new-user and on the already-onboarded
\* branch, leaves the user with a session of the given country and empty
\* interests, platforms, app link and full name, whatever session the user
\* had before.
C9_CommandResetsSession ==
    [][\A u \in Users, c \in Countries :
          onboarding(u, c, TRUE) =>
             /\ DOMAIN user_data_store' \subseteq {Str(v) : v \in Users}
             /\ Str(u) \in DOMAIN user_data_store'
             /\ user_data_store'[Str(u)] =
                   [country |-> c, interests |-> "", platforms |-> "",
                    app_link |-> "", full_name |-> ""]]_vars

\* a second command has replaced a session that had answers in it: the first
\* message got past the interests step, no message is closed, and the
\* session is blank
C9_Witness ==
    \E u \in Users :
        /\ Len(msgs[u]) = 2
        /\ msgs[u][1] \in {"platforms_prompt", "applink_prompt", "name_prompt"}
        /\ msgs[u][2] = "interests_prompt"
        /\ HasSession(u)
        /\ Session(u).interests = "" /\ Session(u).platforms = ""

\* ---------------------------------------------------------------------- C10
\* C10: a failed role grant (the role lookup or add_roles raises) does not
\* fail the completion: the row just written stays in the worksheet, the
\* session is removed, and the user is shown the completion message.
C10_RoleFails(u, i) ==
    \/ add_roles_done(u, i, FALSE)
    \/ /\ HasSession(u)
       /\ \/ \E ts \in Timestamps : SkipNameButton_callback(u, i, TRUE, "error", ts)
          \/ /\ modal[u].msg = i
             /\ \E v \in NameValues, ts \in Timestamps :
                   NameModal_on_submit(u, v, TRUE, "error", ts)

C10_RoleFailureNotFatal ==
    [][\A u \in Users, i \in MsgIds :
          C10_RoleFails(u, i) =>
             /\ RowsOf(worksheet', u) # {}
             /\ Len(worksheet') >= Len(worksheet)
             /\ Str(u) \notin DOMAIN user_data_store'
             /\ msgs'[u][i] = "complete"]_vars

\* add_roles raised in a suspended handler, which then finished
C10_Witness ==
    \E u \in Users, i \in MsgIds :
        /\ i <= Len(msgs[u]) /\ msgs[u][i] = "complete"
        /\ RowsOf(worksheet, u) # {}
        /\ ~HasSession(u)
        /\ NPending = 0

\* ---------------------------------------------------------------------- C11
\* C11: every interaction handler ends by sending the user a message: no
\* initiating command is left unanswered (its exists check raised) and no
\* Continue Anyway is left unanswered (KeyError on a missing session).
C11_EveryHandlerAnswers ==
    \A u \in Users, i \in MsgIds :
        i <= Len(msgs[u]) => msgs[u][i] \notin {"no_response", "already_prompt_failed"}

\* ---------------------------------------------------------------------- C12
\* C12: whatever the interleaving of two users' interactions, a handler run
\* by one user leaves the other user's session as it was (not created, not
\* changed, not removed), and a row it appends carries the acting user's id
\* and display name and the country, interests, platforms and app link of
\* the acting user's own session.
C12_StepOf(u) ==
    \/ \E c \in Countries, readOk \in BOOLEAN : onboarding(u, c, readOk)
    \/ \E i \in MsgIds : continue_button(u, i)
    \/ \E step \in Steps \ {"start"} : C5_Handler(u, step)
    \/ \E i \in MsgIds : AppLinkButton_callback(u, i) \/ NameButton_callback(u, i)
    \/ \E i \in MsgIds, ok \in BOOLEAN : add_roles_done(u, i, ok)

\* every handler shows its user something or is suspended or resumes
C12_ChatChanges(u) ==
    \/ msgs'[u] # msgs[u]
    \/ modal'[u] # modal[u]
    \/ \E i \in MsgIds : pending'[<<u, i>>] # pending[<<u, i>>]

C12_SessionKept(v) ==
    /\ (Str(v) \in DOMAIN user_data_store') <=> HasSession(v)
    /\ HasSession(v) => user_data_store'[Str(v)] = Session(v)

C12_UsersDoNotInterfere ==
    [][\A u \in Users :
          (C12_ChatChanges(u) /\ C12_StepOf(u)) =>
             /\ \A v \in Users \ {u} : C12_SessionKept(v)
             /\ last_row' # << >> =>
                   /\ last_row'[1] = Str(u)
                   /\ last_row'[2] = display_name(u)
                   /\ last_row'[3] = Session(u).country
                   /\ last_row'[4] = Session(u).interests
                   /\ last_row'[5] = Session(u).platforms
                   /\ last_row'[6] = Session(u).app_link]_vars

\* one user's row has just been written while the other user is in the
\* middle of the flow with a session of a different country
C12_Witness ==
    \E u \in Users, v \in Users :
        /\ u # v
        /\ last_row # << >> /\ last_row[1] = Str(u)
        /\ HasSession(v)
        /\ Session(v).country # last_row[3]
        /\ Session(v).interests # ""

\* ---------------------------------------------------------------------- C13
\* C13: country_autocomplete(current) returns the first 25 (all, if fewer)
\* names of the static list that contain the query as a substring when both
\* are lower-cased, in the order of the list; for the empty query these are
\* the first 25 names of the list.
C13_Matching(current) ==
    {k \in 1..Len(countries) :
        \E o \in 0..(Len(countries[k]) - Len(current)) :
            \A j \in 1..Len(current) :
                lower_char(countries[k][o + j]) = lower_char(current[j])}

C13_FirstMatches ==
    autocomplete.answered =>
        LET matching == C13_Matching(autocomplete.current)
            choices  == autocomplete.choices
            n        == IF Cardinality(matching) < 25 THEN Cardinality(matching) ELSE 25
        IN  /\ Len(choices) = n
            /\ \A j \in 1..n :
                  \E k \in matching :
                     /\ choices[j] = countries[k]
                     /\ Cardinality({m \in matching : m < k}) = j - 1
            /\ autocomplete.current = << >> => choices = SubSeq(countries, 1, 25)

\* a query with a capital letter that more than 25 names match in the middle
\* has been answered with 25 choices, the first of which does not start
\* with the query
C13_Witness ==
    /\ autocomplete.answered
    /\ autocomplete.current = <<"N">>
    /\ Cardinality(C13_Matching(autocomplete.current)) > 25
    /\ Len(autocomplete.choices) = 25
    /\ autocomplete.choices[1][1] # "N"

\* ---------------------------------------------------------------------- C14
\* C14: the role updater awaits add_roles exactly when the role is found in
\* the guild and the user does not hold it yet, and the user's roles change
\* only when that call returns; when the role is not found or already held
\* the roles stay as they are; and a granted, a missing and an already held
\* role are all reported as a successful update (the completion message
\* with the role line).
C14_Completes(u, i, role) ==
    /\ HasSession(u)
    /\ \/ \E ts \in Timestamps : SkipNameButton_callback(u, i, TRUE, role, ts)
       \/ /\ modal[u].msg = i
          /\ \E v \in NameValues, ts \in Timestamps :
                NameModal_on_submit(u, v, TRUE, role, ts)

C14_GrantsExactlyWhenNeeded ==
    [][/\ \A u \in Users, i \in MsgIds, role \in RoleOutcomes :
             (AnsweredOn(u, i) /\ C14_Completes(u, i, role)) =>
                /\ (pending'[<<u, i>>] = pending[<<u, i>>] + 1)
                      <=> (role = "found" /\ u \notin roles)
                /\ roles' = roles
                /\ (role = "notfound" \/ (role = "found" /\ u \in roles)) =>
                      msgs'[u][i] = "complete_role_updated"
       /\ \A u \in Users, i \in MsgIds :
             add_roles_done(u, i, TRUE) =>
                roles' = roles \cup {u} /\ msgs'[u][i] = "complete_role_updated"
       /\ roles' # roles =>
             \E u \in Users, i \in MsgIds :
                add_roles_done(u, i, TRUE) /\ u \notin roles
      ]_vars

\* a user who holds the role has completed once more, without a grant being
\* awaited, and was told the roles are up to date
C14_Witness ==
    \E u \in Users, i \in MsgIds :
        /\ u \in roles
        /\ last_row # << >> /\ last_row[1] = Str(u)
        /\ Cardinality(RowsOf(worksheet, u)) = 2
        /\ NPending = 0
        /\ i <= Len(msgs[u]) /\ msgs[u][i] = "complete_role_updated"

\* ---------------------------------------------------------------------- C15
\* C15: the row appended at a completion whose write goes through holds the
\* acting user's id, the country, interests, platforms and app link of the
\* user's session, and the submitted name (empty after skipName); and
\* those session fields are the latest values stored in the session: the
\* country given to the latest answered initiating command, which also blanks
\* the other fields, the comma-joined values of the latest interests and
\* platforms selections, and the latest submitted link (empty after
\* skipAppLink); no other step changes them.
C15_Row(u, name, ts) ==
    <<Str(u), display_name(u), Session(u).country, Session(u).interests,
      Session(u).platforms, Session(u).app_link, name, ts>>

C15_Field(u, f) == user_data_store[Str(u)][f]

C15_Others(u, f) ==
    \A g \in {"country", "interests", "platforms", "app_link"} \ {f} :
        C15_Field(u, g)' = C15_Field(u, g)

C15_RecordIsSession ==
    [][\A u \in Users :
          /\ \A i \in MsgIds, ts \in Timestamps, role \in RoleOutcomes :
                /\ (HasSession(u) /\ SkipNameButton_callback(u, i, TRUE, role, ts)) =>
                      last_row' = C15_Row(u, "", ts)
                /\ \A v \in NameValues :
                      (HasSession(u) /\ NameModal_on_submit(u, v, TRUE, role, ts)) =>
                         last_row' = C15_Row(u, v, ts)
          /\ \A c \in Countries :
                onboarding(u, c, TRUE) => user_data_store'[Str(u)] = NewSession(c)
          /\ HasSession(u) =>
                /\ \A i \in MsgIds, v \in DataInterestValues :
                      InvolvementSelect_callback(u, i, v) =>
                         C15_Field(u, "interests")' = Join(v) /\ C15_Others(u, "interests")
                /\ \A i \in MsgIds, v \in PlatformValues :
                      PlatformSelect_callback(u, i, v) =>
                         C15_Field(u, "platforms")' = Join(v) /\ C15_Others(u, "platforms")
                /\ \A v \in LinkValues :
                      AppLinkModal_on_submit(u, v) =>
                         C15_Field(u, "app_link")' = v /\ C15_Others(u, "app_link")
                /\ \A i \in MsgIds :
                      SkipAppLinkButton_callback(u, i) =>
                         C15_Field(u, "app_link")' = "" /\ C15_Others(u, "app_link")
                /\ (/\ Str(u) \in DOMAIN user_data_store'
                    /\ \E f \in {"country", "interests", "platforms", "app_link"} :
                          C15_Field(u, f)' # C15_Field(u, f))
                   => \/ \E c \in Countries : onboarding(u, c, TRUE)
                      \/ \E i \in MsgIds, v \in DataInterestValues :
                            InvolvementSelect_callback(u, i, v)
                      \/ \E step \in {"platforms", "applink"} : C5_Handler(u, step)
      ]_vars

\* after two commands and with both messages used, a row with the country
\* of the second command, the second interests selection, a link and a name
\* has been appended
C15_Witness ==
    /\ last_row # << >>
    /\ Len(msgs[1]) = 2 /\ msgs[1][1] # "interests_prompt"
    /\ last_row[1] = "1" /\ last_row[3] = "Chile"
    /\ last_row[4] = "promote" /\ last_row[5] = "iOS - Swift"
    /\ last_row[6] = "https://a.app" /\ last_row[7] = "Ann Lee"

\* ---------------------------------------------------------------------- C16
\* C16: skipping is submitting an empty value.  A step of skipName on a
\* message is a step of the tail of submitName with the empty name, and a
\* step of submitName with the empty name from the modal opened on a message
\* is a step of the tail of skipName on that message: the same session map,
\* worksheet, row, roles, suspended grant and message shown.  Likewise
\* skipAppLink and submitAppLink with the empty link both store "" as the
\* app link and show the name step on the message, and change nothing else.
C16_AppLinkEffect(u, i) ==
    /\ user_data_store' = StoreField(user_data_store, Str(u), "app_link", "")
    /\ msgs' = edit_message(u, i, "name_prompt")
    /\ modal'[u] = NoModal
    /\ last_row' = << >>
    /\ UNCHANGED <<worksheet, roles, pending>>

C16_SkipIsEmptySubmit ==
    [][\A u \in Users, i \in MsgIds :
          AnsweredOn(u, i) =>
          /\ \A ok \in BOOLEAN, role \in RoleOutcomes, ts \in Timestamps :
                /\ SkipNameButton_callback(u, i, ok, role, ts) =>
                      AfterSave(u, i,
                                NameModal_save(user_data_store, Sheet, Str(u),
                                               display_name(u), "", ts, ok),
                                role)
                /\ (modal[u].msg = i /\ NameModal_on_submit(u, "", ok, role, ts)) =>
                      AfterSave(u, i,
                                SkipName_save(user_data_store, Sheet, Str(u),
                                              display_name(u), ts, ok),
                                role)
          /\ SkipAppLinkButton_callback(u, i) => C16_AppLinkEffect(u, i)
          /\ (modal[u].msg = i /\ AppLinkModal_on_submit(u, "")) => C16_AppLinkEffect(u, i)
      ]_vars

\* after a completion failed on one message, a completion on another message
\* has appended a row with the empty name and the link of the session
C16_Witness ==
    \E u \in Users, i \in MsgIds, j \in MsgIds :
        /\ i # j /\ i <= Len(msgs[u]) /\ j <= Len(msgs[u])
        /\ msgs[u][i] = "save_error"
        /\ msgs[u][j] \in {"complete", "complete_role_updated"}
        /\ last_row # << >> /\ last_row[1] = Str(u)
        /\ last_row[6] # "" /\ last_row[7] = ""

\* ---------------------------------------------------------------------- C17
\* C17: every row appended to the worksheet has non-empty interests and
\* non-empty platforms, also when the user acts on messages left over from
\* an earlier initiating command.
C17_RecordsHaveAnswers ==
    last_row # << >> => last_row[4] # "" /\ last_row[5] # ""

\* ---------------------------------------------------------------------- C18
\* C18: a user never has more rows in the worksheet than initiating commands
\* issued: a second completion that runs while the first is suspended at
\* add_roles does not append a second row for the same session.
C18_RowsAtMostCommands ==
    \A u \in Users : Cardinality(RowsOf(worksheet, u)) <= Len(msgs[u])

\* ---------------------------------------------------------------------- C19
\* C19: the role is granted only after a write that went through: a user who
\* holds the role, or for whom add_roles is being awaited, has a row in the
\* worksheet; and a completion whose write failed or whose session is
\* missing neither awaits add_roles nor changes the roles.
C19_NoGrant(u, i) ==
    \/ CompletionOn(u, i, FALSE)
    \/ ~HasSession(u) /\ CompletionOn(u, i, TRUE)

C19_RoleOnlyAfterWrite ==
    [][\A u \in Users :
          /\ u \in roles' => RowsOf(worksheet', u) # {}
          /\ \A i \in MsgIds :
                /\ pending'[<<u, i>>] > 0 => RowsOf(worksheet', u) # {}
                /\ (AnsweredOn(u, i) /\ C19_NoGrant(u, i)) =>
                      pending' = pending /\ roles' = roles
      ]_vars

\* a user whose first attempt failed at the write holds the role after a
\* later attempt went through
C19_Witness ==
    \E u \in Users, i \in MsgIds :
        /\ i <= Len(msgs[u]) /\ msgs[u][i] = "save_error"
        /\ u \in roles
        /\ Cardinality(RowsOf(worksheet, u)) = 1

====
